---- MODULE Spec2Model ----
(***************************************************************************)
(* A model of defunc: calibration utilities for De:code arrays.            *)
(*                                                                         *)
(* A De:code array is modelled as a record                                 *)
(*   [isarray, dims, coords, t]                                            *)
(* where isarray/dims/coords are what assert_isdarray inspects and t is    *)
(* the sequence of samples along the 't' axis.  A sample is a record       *)
(*   [time, scantype, scanid, val]                                         *)
(* whose val stands for the sample's row of channel values (every          *)
(* operation of the package treats channels independently and never        *)
(* reorders them).                                                         *)
(*                                                                         *)
(* The state is the caller's objects (mem), the call that was made (call), *)
(* what it returned or raised (ret), the invocations of a wrapped function *)
(* (fcalls), the subprocesses launched (procs) and the environment         *)
(* variables and files of the machine (osenv).  Every function of the      *)
(* package is one action that runs the whole function.                     *)
(***************************************************************************)
EXTENDS Integers, Sequences, FiniteSets

VARIABLES mem, call, ret, fcalls, procs, osenv

vars == <<mem, call, ret, fcalls, procs, osenv>>

(***************************************************************************)
(* Bounds of the model.                                                    *)
(***************************************************************************)
MaxLen == 3        \* samples of an input array
MaxTime == 3       \* time stamps are 0..MaxTime ticks
TicksPerUnit == 2  \* ticks of the time coordinate per t_unit
MaxTd == 3         \* t_divide, in ticks (so that it may be fractional in t_unit)
MaxId == 2         \* scan IDs of input arrays are 0..MaxId
MaxVal == 2        \* rows of input arrays hold 1..MaxVal
MaxOnLen == 2      \* samples of an ON array given with an OFF/REFERENCE array
MaxParams == 1     \* parameters given to exec_am
TimeoutS == 10     \* a timeout given to exec_am

(***************************************************************************)
(* Generic helpers (numpy / xarray primitives used by the package).        *)
(***************************************************************************)
Abs(x) == IF x < 0 THEN -x ELSE x

\* array[index] with a boolean index: the samples where the mask is true, in order
RECURSIVE Select(_, _)
Select(t, mask) ==
    IF t = <<>> THEN <<>>
    ELSE (IF Head(mask) THEN <<Head(t)>> ELSE <<>>) \o Select(Tail(t), Tail(mask))

\* positions (1-based) where the mask is true, ascending
Positions(mask) == {i \in 1..Len(mask) : mask[i]}

\* rank of position i among the true positions of the mask
Rank(mask, i) == Cardinality({j \in Positions(mask) : j <= i})

\* np.cumsum of a boolean vector
CumSum(cond) == [i \in 1..Len(cond) |-> Cardinality({j \in 1..i : cond[j]})]

\* np.unique: the sorted distinct values, as a sequence
RECURSIVE SortedSeq(_)
SortedSeq(S) ==
    IF S = {} THEN <<>>
    ELSE LET m == CHOOSE x \in S : \A y \in S : x <= y
         IN  <<m>> \o SortedSeq(S \ {m})

unique(t) == SortedSeq({t[i].scanid : i \in 1..Len(t)})

\* np.searchsorted(ids, x) with side='left': the number of elements < x
searchsorted(ids, x) == Cardinality({i \in 1..Len(ids) : ids[i] < x})

(***************************************************************************)
(* utils.py: module constants and assert_isdarray.                         *)
(***************************************************************************)
DARRAY_DIMS == {"t", "ch"}
DARRAY_COORDS == {"scanid", "scantype", "kidid", "kidfq", "kidtp"}

assert_isdarray(array) ==
    /\ array.isarray
    /\ array.dims = DARRAY_DIMS
    /\ DARRAY_COORDS \subseteq array.coords

\* what a function returns or raises
NoRet == [kind |-> "none"]
\* an exception and the statement that raised it
Raise(exc, at) == [kind |-> "raise", exc |-> exc, at |-> at]
Value(v) == [kind |-> "value", value |-> v]
Ref(r) == [kind |-> "ref", ref |-> r]

\* a valid De:code array with samples t
Darray(t) == [isarray |-> TRUE, dims |-> DARRAY_DIMS, coords |-> DARRAY_COORDS \cup {"time"}, t |-> t]

EmptyArray == Darray(<<>>)

(***************************************************************************)
(* calibration.py: reallocate_scanid.                                      *)
(* t_divide is <<>> (None) or <<n>>, n in ticks; int(t_divide) truncates   *)
(* it to whole units and np.timedelta64 turns the units into ticks.        *)
(***************************************************************************)
IntTrunc(ticks) == ticks \div TicksPerUnit

timedelta64(units) == units * TicksPerUnit

\* a faulty line 78: every scan type compared with the first one
CondTypeFirst(t) ==
    [i \in 1..(IF Len(t) = 0 THEN 1 ELSE Len(t)) |->
        IF i = 1 THEN FALSE ELSE t[i].scantype # t[1].scantype]

\* line 78: np.hstack([False, scantype[1:] != scantype[:-1]])
CondType(t) ==
    [i \in 1..(IF Len(t) = 0 THEN 1 ELSE Len(t)) |->
        IF i = 1 THEN FALSE ELSE t[i].scantype # t[i-1].scantype]

\* a faulty line 82: >= in place of >
CondTimeGeq(t, t_delta) ==
    [i \in 1..(IF Len(t) = 0 THEN 1 ELSE Len(t)) |->
        IF i = 1 THEN FALSE ELSE Abs(t[i].time - t[i-1].time) >= t_delta]

\* line 82: np.hstack([False, np.abs(np.diff(time)) > t_delta])
CondTime(t, t_delta) ==
    [i \in 1..(IF Len(t) = 0 THEN 1 ELSE Len(t)) |->
        IF i = 1 THEN FALSE ELSE Abs(t[i].time - t[i-1].time) > t_delta]

\* lines 78-82: the boundary vector
Cond(t, t_divide) ==
    IF t_divide = <<>> THEN CondType(t)
    ELSE LET t_delta == timedelta64(IntTrunc(t_divide[1]))
             c1 == CondType(t)
             c2 == CondTime(t, t_delta)
         IN  [i \in DOMAIN c1 |-> c1[i] \/ c2[i]]

\* line 84: array.scanid.values = ids  (the samples with their scan ID replaced)
SetScanid(t, ids) == [i \in 1..Len(t) |-> [t[i] EXCEPT !.scanid = ids[i]]]

\* a faulty reallocate_scanid: the new IDs go to a copy, which is returned
reallocate_scanid_copy(m, ref, t_divide) ==
    LET array == m[ref]
        ids == CumSum(Cond(array.t, t_divide))
    IN  IF ~assert_isdarray(array) THEN [mem |-> m, ret |-> Raise("AssertionError", "assert_isdarray")]
        ELSE IF Len(ids) # Len(array.t) THEN [mem |-> m, ret |-> Raise("ValueError", "calibration.py:84")]
        ELSE [mem |-> m, ret |-> Value([array EXCEPT !.t = SetScanid(array.t, ids)])]

\* lines 74-85: the objects after reallocate_scanid(m[ref], t_divide) and its result;
\* an array without samples gets a vector of one ID, which line 84 refuses
reallocate_scanid(m, ref, t_divide) ==
    LET array == m[ref]
        ids == CumSum(Cond(array.t, t_divide))
    IN  IF ~assert_isdarray(array) THEN [mem |-> m, ret |-> Raise("AssertionError", "assert_isdarray")]
        ELSE IF Len(ids) # Len(array.t) THEN [mem |-> m, ret |-> Raise("ValueError", "calibration.py:84")]
        ELSE [mem |-> [m EXCEPT ![ref].t = SetScanid(array.t, ids)], ret |-> Ref(ref)]

(***************************************************************************)
(* The function a wrapper is applied to.  func(kind, args) is what the     *)
(* wrapped function of that kind returns for the arguments the wrapper     *)
(* hands it: [ok |-> TRUE, rows |-> the rows of its result] or, if it      *)
(* raises, [ok |-> FALSE, exc |-> the exception].                          *)
(***************************************************************************)
Vals(t) == [i \in 1..Len(t) |-> t[i].val]

\* Tin.scanid == id_ (the samples whose scan ID is one of ids)
ScanidIs(t, ids) == [i \in 1..Len(t) |-> t[i].scanid \in ids]

Reverse(s) == [i \in 1..Len(s) |-> s[Len(s) + 1 - i]]

RECURSIVE SumSeq(_)
SumSeq(s) == IF s = <<>> THEN 0 ELSE Head(s) + SumSeq(Tail(s))

Rows(rows) == [ok |-> TRUE, rows |-> rows]

Raises(exc, at) == [ok |-> FALSE, exc |-> exc, at |-> at]

\* the mean along t of rows: the pair <<sum, count>> (the quotient; NaN if count = 0)
Mean(rows) == <<SumSeq(rows), Len(rows)>>

Times(t) == [i \in 1..Len(t) |-> t[i].time]

\* interp1d raises ValueError for an x outside the range of the two knots
InRange(x, toff) ==
    \/ x * toff[1][2] >= toff[1][1] /\ x * toff[2][2] <= toff[2][1]
    \/ x * toff[2][2] >= toff[2][1] /\ x * toff[1][2] <= toff[1][1]

\* Pr.mean('t') of whatever was passed as Pr
MeanAlongT(Pr, at) ==
    IF ~Pr.isarray THEN Raises("AttributeError", at)
    ELSE IF "t" \notin Pr.dims THEN Raises("ValueError", at)
    ELSE Rows(Mean(Vals(Pr.t)))

\* funcs.py lines 37-52.  A row of the result is the formula's operands:
\* Tamb * (Pon - Poff_ip) / (Pr_0 - Poff_ip), Poff_ip interpolated at x between
\* the knots (xp[1], fp[1]) and (xp[2], fp[2]).
_calculate_Ton(Pon, Poff, Pr, Tamb) ==
    LET offids == unique(Poff.t)
    IN  IF Len(offids) # 2 THEN Raises("AssertionError", "funcs.py:39")
        ELSE LET Poff_f == Select(Poff.t, ScanidIs(Poff.t, {offids[1]}))
                 Poff_l == Select(Poff.t, ScanidIs(Poff.t, {offids[2]}))
                 toff == <<Mean(Times(Poff_f)), Mean(Times(Poff_l))>>
                 spec == <<Mean(Vals(Poff_f)), Mean(Vals(Poff_l))>>
                 Pr_0 == MeanAlongT(Pr, "funcs.py:51")
             IN  IF \E i \in 1..Len(Pon.t) : ~InRange(Pon.t[i].time, toff)
                 THEN Raises("ValueError", "funcs.py:50")
                 ELSE IF ~Pr_0.ok THEN Pr_0
                 ELSE Rows([i \in 1..Len(Pon.t) |->
                         [Tamb |-> Tamb, P |-> Pon.t[i].val,
                          Poff_ip |-> [x |-> Pon.t[i].time, xp |-> toff, fp |-> spec],
                          Pr_0 |-> Pr_0.rows]])

\* funcs.py lines 57-61: Tamb * (Poff - Poff_0) / (Pr_0 - Poff_0)
_calculate_Toff(Poff, Pr, Tamb) ==
    LET Poff_0 == Mean(Vals(Poff.t))
        Pr_0 == MeanAlongT(Pr, "funcs.py:59")
    IN  IF ~Pr_0.ok THEN Pr_0
        ELSE Rows([i \in 1..Len(Poff.t) |->
                [Tamb |-> Tamb, P |-> Poff.t[i].val, Poff_0 |-> Poff_0, Pr_0 |-> Pr_0.rows]])

\* calibration.py line 54: dc.full_like(Psky, Pr.mean('t'))
_interpolate_Pr(Psky, Pr) == Rows([i \in 1..Len(Psky.t) |-> Mean(Vals(Pr.t))])

\* user functions: the identity, one that depends on the position in the group, one
\* that depends on the whole group and on the second argument, and one whose result
\* has one row less than a group of two or more samples
func(kind, args) ==
    LET Tin_ == args[1].t
    IN  CASE kind = "identity" -> Rows(Vals(Tin_))
          [] kind = "reverse" -> Rows(Reverse(Vals(Tin_)))
          [] kind = "addsum" ->
                Rows([i \in 1..Len(Tin_) |->
                        Tin_[i].val + 10 * SumSeq(Vals(Tin_))
                            + (IF Len(args) >= 2 THEN 100 * SumSeq(Vals(args[2].t)) ELSE 0)])
          [] kind = "shorter" ->
                Rows(IF Len(Tin_) >= 2 THEN Tail(Vals(Tin_)) ELSE Vals(Tin_))
          [] kind = "_calculate_Ton" -> _calculate_Ton(args[1], args[2], args[3], args[4])
          [] kind = "_calculate_Toff" -> _calculate_Toff(args[1], args[2], args[3])
          [] kind = "_interpolate_Pr" -> _interpolate_Pr(args[1], args[2])

(***************************************************************************)
(* utils.py: apply_each_scanid and apply_each_onref.                       *)
(***************************************************************************)
\* xr.zeros_like: the same coordinates, every value 0
zeros_like(array) == [array EXCEPT !.t = [i \in 1..Len(array.t) |-> [array.t[i] EXCEPT !.val = 0]]]

\* a faulty line 178: the rows go to one block that starts at the group's first sample
AssignBlock(Tout, index, rows) ==
    LET first == CHOOSE i \in Positions(index) : \A j \in Positions(index) : i <= j
    IN  [Tout EXCEPT !.t = [i \in 1..Len(Tout.t) |->
            IF i >= first /\ i < first + Len(rows)
            THEN [Tout.t[i] EXCEPT !.val = rows[i - first + 1]]
            ELSE Tout.t[i]]]

\* line 178: Tout[index] = Tout_: the rows of Tout_ go, in order, to the positions of
\* the index
Assign(Tout, index, rows) ==
    [Tout EXCEPT !.t = [i \in 1..Len(Tout.t) |->
        IF index[i] THEN [Tout.t[i] EXCEPT !.val = rows[Rank(index, i)]] ELSE Tout.t[i]]]

\* lines 172-178: the loop over the scan IDs still to do; log is the calls of func so far
RECURSIVE ScanidLoop(_, _, _, _, _, _)
ScanidLoop(kind, Tin, rest, scanids, Tout, log) ==
    IF scanids = <<>> THEN [ret |-> Value(Tout), fcalls |-> log]
    ELSE LET id_ == Head(scanids)
             index == ScanidIs(Tin.t, {id_})
             Tin_ == [Tin EXCEPT !.t = Select(Tin.t, index)]
             Tout_ == func(kind, <<Tin_>> \o rest)
             log_ == Append(log, [func |-> kind, id |-> id_, args |-> <<Tin_>> \o rest])
         IN  IF ~Tout_.ok THEN [ret |-> Raise(Tout_.exc, Tout_.at), fcalls |-> log_]
             ELSE IF Len(Tout_.rows) # Len(Tin_.t)
                  THEN [ret |-> Raise("AssertionError", "utils.py:177"), fcalls |-> log_]
             ELSE ScanidLoop(kind, Tin, rest, Tail(scanids),
                             Assign(Tout, index, Tout_.rows), log_)

\* lines 165-180: wrapper(*args), args = <<Tin>> \o rest
apply_each_scanid(kind, Tin, rest) ==
    IF ~assert_isdarray(Tin)
    THEN [ret |-> Raise("AssertionError", "assert_isdarray"), fcalls |-> <<>>]
    ELSE ScanidLoop(kind, Tin, rest, unique(Tin.t), zeros_like(Tin), <<>>)

\* a faulty line 208: an assertion that excludes len(refids)
IndexBelowLen(index_l, refids) == 0 <= index_l /\ index_l < Len(refids)

\* line 208: assert 0 <= index_l <= len(refids)
IndexInRange(index_l, refids) == 0 <= index_l /\ index_l <= Len(refids)

\* a faulty line 211: no wrap-around, the first ID when there is no earlier one
FormerNoWrap(refids, index_l) == refids[IF index_l = 0 THEN 1 ELSE index_l]

\* line 211: refids[index_l-1]; a negative index counts from the end (0-based index_l)
Former(refids, index_l) == refids[IF index_l = 0 THEN Len(refids) ELSE index_l]

\* line 210: refids[index_l] (0-based index_l)
Latter(refids, index_l) == refids[index_l + 1]

\* lines 206-221: the loop over the ON scan IDs still to do
RECURSIVE OnrefLoop(_, _, _, _, _, _, _)
OnrefLoop(kind, Ton, Tref, rest, onids, Tout, log) ==
    IF onids = <<>> THEN [ret |-> Value(Tout), fcalls |-> log]
    ELSE LET onid == Head(onids)
             refids == unique(Tref.t)
             index_l == searchsorted(refids, onid)
         IN  IF ~IndexInRange(index_l, refids)
             THEN [ret |-> Raise("AssertionError", "utils.py:208"), fcalls |-> log]
             ELSE IF index_l >= Len(refids)
             THEN [ret |-> Raise("IndexError", "utils.py:210"), fcalls |-> log]
             ELSE LET refid_l == Latter(refids, index_l)
                      refid_f == Former(refids, index_l)
                      index_on == ScanidIs(Ton.t, {onid})
                      index_ref == ScanidIs(Tref.t, {refid_f, refid_l})
                      Ton_ == [Ton EXCEPT !.t = Select(Ton.t, index_on)]
                      Tref_ == [Tref EXCEPT !.t = Select(Tref.t, index_ref)]
                      Tout_ == func(kind, <<Ton_, Tref_>> \o rest)
                      log_ == Append(log, [func |-> kind, id |-> onid,
                                            args |-> <<Ton_, Tref_>> \o rest])
                  IN  IF ~Tout_.ok THEN [ret |-> Raise(Tout_.exc, Tout_.at), fcalls |-> log_]
                      ELSE IF Len(Tout_.rows) # Len(Ton_.t)
                           THEN [ret |-> Raise("AssertionError", "utils.py:220"), fcalls |-> log_]
                      ELSE OnrefLoop(kind, Ton, Tref, rest, Tail(onids),
                                     Assign(Tout, index_on, Tout_.rows), log_)

\* lines 197-223: wrapper(*args), args = <<Ton, Tref>> \o rest
apply_each_onref(kind, Ton, Tref, rest) ==
    IF ~assert_isdarray(Ton) \/ ~assert_isdarray(Tref)
    THEN [ret |-> Raise("AssertionError", "assert_isdarray"), fcalls |-> <<>>]
    ELSE OnrefLoop(kind, Ton, Tref, rest, unique(Ton.t), zeros_like(Ton), <<>>)

(***************************************************************************)
(* calibration.py: indexby and recompose_darray.                           *)
(***************************************************************************)
\* lines 101-108, for the coordinate the package calls it with (scantype)
indexby(array, items) ==
    IF ~assert_isdarray(array) THEN Raise("AssertionError", "assert_isdarray")
    ELSE Value([i \in 1..Len(array.t) |->
                   \E k \in 1..Len(items) : array.t[i].scantype = items[k]])

\* line 52: the decorator of _interpolate_Pr, the wrapper of section 4.5 that pairs
\* each group of the first array with its bracketing groups of the second
foreach_onref(kind, Ton, Tref, rest) == apply_each_onref(kind, Ton, Tref, rest)

\* a faulty line 41: Prip keeps the scan IDs it had
KeepScanid(Prip, Psky) == Prip

\* line 41: Prip.scanid[:] = Psky.scanid
CopyScanid(Prip, Psky) ==
    [Prip EXCEPT !.t = [i \in 1..Len(Prip.t) |-> [Prip.t[i] EXCEPT !.scanid = Psky.t[i].scanid]]]

\* array[fn.indexby(array, *items)] of an array that indexby accepts
Sub(array, items) == [array EXCEPT !.t = Select(array.t, indexby(array, items).value)]

\* lines 35-49
recompose_darray(array, scantype_on, scantype_off, scantype_r) ==
    IF indexby(array, scantype_on \o scantype_off).kind = "raise"
    THEN [ret |-> indexby(array, scantype_on \o scantype_off), fcalls |-> <<>>]
    ELSE LET Psky == Sub(array, scantype_on \o scantype_off)
             Pr == Sub(array, scantype_r)
             Prip == foreach_onref("_interpolate_Pr", Psky, Pr, <<>>)
             re == reallocate_scanid([Psky |-> Psky], "Psky", <<>>)
         IN  IF Prip.ret.kind = "raise" THEN Prip
             ELSE IF re.ret.kind = "raise" THEN [ret |-> re.ret, fcalls |-> Prip.fcalls]
             ELSE LET Psky_ == re.mem[re.ret.ref]
                      Prip_ == CopyScanid(Prip.ret.value, Psky_)
                      Pon == Sub(Psky_, scantype_on)
                      Poff == Sub(Psky_, scantype_off)
                      Pr_on == Sub(Prip_, scantype_on)
                      Pr_off == Sub(Prip_, scantype_off)
                  IN  [ret |-> Value(<<Pon, Poff, Pr_on, Pr_off>>), fcalls |-> Prip.fcalls]

(***************************************************************************)
(* utils.py: normalize and denormalize.  The statistics are kept as exact  *)
(* pairs; a row of the result is the operands of its formula.              *)
(***************************************************************************)
Squares(rows) == [i \in 1..Len(rows) |-> rows[i] * rows[i]]

\* array.std('t'): the square root of  <<n * sum(x^2) - sum(x)^2, n^2>>
Std(rows) ==
    <<Len(rows) * SumSeq(Squares(rows)) - SumSeq(rows) * SumSeq(rows), Len(rows) * Len(rows)>>

\* lines 230-237
normalize(array) ==
    IF ~assert_isdarray(array) THEN Raise("AssertionError", "assert_isdarray")
    ELSE LET mean == Mean(Vals(array.t))
             std == Std(Vals(array.t))
         IN  Value([isarray |-> TRUE, dims |-> array.dims,
                    coords |-> array.coords \cup {"mean_along_t", "std_along_t"},
                    t |-> [i \in 1..Len(array.t) |->
                             [array.t[i] EXCEPT !.val = [x |-> array.t[i].val, minus |-> mean, over |-> std]]],
                    mean_along_t |-> mean, std_along_t |-> std])

\* lines 242-249
denormalize(array) ==
    IF ~assert_isdarray(array) THEN Raise("AssertionError", "assert_isdarray")
    ELSE IF "mean_along_t" \notin array.coords THEN Raise("KeyError", "utils.py:243")
    ELSE IF "std_along_t" \notin array.coords THEN Raise("KeyError", "utils.py:244")
    ELSE Value([isarray |-> TRUE, dims |-> array.dims,
                coords |-> array.coords \ {"mean_along_t", "std_along_t"},
                t |-> [i \in 1..Len(array.t) |->
                         [array.t[i] EXCEPT !.val = [x |-> array.t[i].val, times |-> array.std_along_t,
                                                     plus |-> array.mean_along_t]]]])

(***************************************************************************)
(* utils.py: exec_am.  The machine is osenv = [AM_PATH, files, executables]: *)
(* the value of the environment variable (<<>> if unset), the files that   *)
(* exist and the programs that can be run.  What am itself prints, and     *)
(* whether it ends in time, is not the package's: it is an input (am_run)  *)
(* that the package does not constrain.                                    *)
(***************************************************************************)
DEFAULT_AMC == "data/ALMA_annual_50.amc"

\* Path(amc).expanduser()
expanduser(path) == IF path = "~/my.amc" THEN "/home/user/my.amc" ELSE path

\* lines 72-77: the tokens of the parameters; <<"ValueError">> stands for u.Unit raising
RECURSIVE ParseParams(_)
ParseParams(params) ==
    IF params = <<>> THEN [ok |-> TRUE, tokens |-> <<>>]
    ELSE LET param == Head(params)
             others == ParseParams(Tail(params))
         IN  IF ~param.valid THEN [ok |-> FALSE, tokens |-> <<>>]
             ELSE IF ~others.ok THEN others
             ELSE [ok |-> TRUE,
                   tokens |-> (IF param.dimensionless THEN <<param.scale>>
                               ELSE param.to_string) \o others.tokens]

\* lines 90-99: the first line of stderr that matches '^output (.*)'
RECURSIVE FirstOutput(_)
FirstOutput(lines) ==
    IF lines = <<>> THEN <<>>
    ELSE IF Head(lines).output THEN <<Head(lines).items>>
    ELSE FirstOutput(Tail(lines))

\* lines 95-96: kinds, units = items[0::2], items[1::2] zipped into 'kind (unit)'
Names(items) == [k \in 1..(Len(items) \div 2) |-> <<items[2 * k - 1], items[2 * k]>>]

\* lines 61-106: [ret, procs] of exec_am(*params, amc, timeout) on machine env
exec_am(params, amc, timeout, env, am_run, started) ==
    LET am == IF env.AM_PATH = <<>> THEN "am" ELSE env.AM_PATH[1]
        path == IF amc = <<>> THEN DEFAULT_AMC ELSE expanduser(amc[1])
        params_ == ParseParams(params)
        args == <<am, path>> \o params_.tokens
        matched == FirstOutput(am_run.stderr)
        names == Names(matched[1])
    IN  IF ~params_.ok THEN [ret |-> Raise("ValueError", "utils.py:73"), procs |-> started]
        ELSE IF am \notin env.executables
             THEN [ret |-> Raise("FileNotFoundError", "utils.py:83"), procs |-> started]
        ELSE IF timeout # <<>> /\ am_run.hangs
             THEN [ret |-> Raise("TimeoutExpired", "utils.py:83"),
                   procs |-> Append(started, args)]
        ELSE IF matched = <<>>
             THEN [ret |-> Raise("RuntimeError", "utils.py:99"), procs |-> Append(started, args)]
        ELSE IF Len(names) - 1 # am_run.columns /\ ~(names = <<>> /\ am_run.columns = 0)
             THEN [ret |-> Raise("ValueError", "utils.py:103"), procs |-> Append(started, args)]
        ELSE IF names = <<>>
             THEN [ret |-> Raise("IndexError", "utils.py:104"), procs |-> Append(started, args)]
        ELSE [ret |-> Value([columns |-> Tail(names), index_name |-> names[1], name |-> path]),
              procs |-> Append(started, args)]

(***************************************************************************)
(* funcs.py: rsky_calibration.                                             *)
(***************************************************************************)
DefaultTamb == 273

\* lines 30-33
rsky_calibration(Pon, Poff, Pr, Tamb) ==
    LET Ton == apply_each_onref("_calculate_Ton", Pon, Poff, <<Pr, Tamb>>)
        Toff == apply_each_scanid("_calculate_Toff", Poff, <<Pr, Tamb>>)
    IN  IF Ton.ret.kind = "raise" THEN Ton
        ELSE IF Toff.ret.kind = "raise"
             THEN [ret |-> Toff.ret, fcalls |-> Ton.fcalls \o Toff.fcalls]
        ELSE [ret |-> Value(<<Ton.ret.value, Toff.ret.value>>),
              fcalls |-> Ton.fcalls \o Toff.fcalls]

(***************************************************************************)
(* Inputs.                                                                 *)
(***************************************************************************)
SeqsUpTo(S, n) == UNION {[1..k -> S] : k \in 0..n}

ScanTypes == {"A", "B"}

\* the objects of a caller that holds one array
Objects(array, Pon, Poff, Pr) == [array |-> array, Pon |-> Pon, Poff |-> Poff, Pr |-> Pr]

NoCall == [fn |-> "none"]

\* input arrays of reallocate_scanid: any time stamps, scan types and previous scan IDs
ReallocInputs ==
    SeqsUpTo([time : 0..MaxTime, scantype : ScanTypes, scanid : 0..1, val : {1}], MaxLen)

\* input arrays of apply_each_scanid: any scan IDs, contiguous or not, and any rows
ScanidInputs ==
    SeqsUpTo([time : {0}, scantype : {"A"}, scanid : 0..MaxId, val : 1..MaxVal], MaxLen)

\* input arrays of apply_each_onref: any scan IDs; sample i holds the row i
Numbered(t) == [i \in 1..Len(t) |-> [t[i] EXCEPT !.val = i, !.time = i]]

OnrefInputs(n) ==
    {Numbered(t) : t \in SeqsUpTo([time : {0}, scantype : {"A"}, scanid : 0..MaxId, val : {0}], n)}

\* input arrays of rsky_calibration: any scan IDs; sample i holds the row i, and time
\* stamps increase along the array and with the scan ID
Timed(t) ==
    [i \in 1..Len(t) |-> [t[i] EXCEPT !.val = i, !.time = (MaxLen + 1) * t[i].scanid + i]]

CalInputs(n) ==
    {Timed(t) : t \in SeqsUpTo([time : {0}, scantype : {"A"}, scanid : 0..MaxId, val : {0}], n)}

\* a machine where the package's am adapter is not used
NoEnv == [AM_PATH |-> <<>>, files |-> {}, executables |-> {}]

InitRealloc ==
    /\ mem \in {Objects(Darray(t), EmptyArray, EmptyArray, EmptyArray) : t \in ReallocInputs}
    /\ call = NoCall
    /\ ret = NoRet
    /\ fcalls = <<>>
    /\ procs = <<>>
    /\ osenv = NoEnv

(***************************************************************************)
(* Actions: one call of a function of the package on the caller's objects. *)
(* call records the function, its parameters and the objects as they were  *)
(* when it was called.                                                     *)
(***************************************************************************)
TDivides == {<<>>} \cup {<<n>> : n \in 0..MaxTd}

ReallocateScanid ==
    /\ call.fn = "none"
    /\ \E t_divide \in TDivides :
          LET r == reallocate_scanid(mem, "array", t_divide)
          IN  /\ mem' = r.mem
              /\ ret' = r.ret
              /\ call' = [fn |-> "reallocate_scanid", t_divide |-> t_divide, before |-> mem]
    /\ UNCHANGED <<fcalls, procs, osenv>>

NextRealloc == ReallocateScanid

InitScanid ==
    /\ mem \in {Objects(Darray(t), EmptyArray, EmptyArray, EmptyArray) : t \in ScanidInputs}
    /\ call = NoCall
    /\ ret = NoRet
    /\ fcalls = <<>>
    /\ procs = <<>>
    /\ osenv = NoEnv

InitOnref ==
    /\ mem \in {Objects(EmptyArray, Darray(on), Darray(ref), EmptyArray) :
                    on \in OnrefInputs(MaxOnLen), ref \in OnrefInputs(MaxLen)}
    /\ call = NoCall
    /\ ret = NoRet
    /\ fcalls = <<>>
    /\ procs = <<>>
    /\ osenv = NoEnv

FuncKinds == {"identity", "reverse", "addsum", "shorter"}

\* a wrapped function applied to the caller's array
ApplyEachScanid ==
    /\ call.fn = "none"
    /\ \E kind \in FuncKinds :
          LET r == apply_each_scanid(kind, mem.array, <<>>)
          IN  /\ ret' = r.ret
              /\ fcalls' = r.fcalls
              /\ call' = [fn |-> "apply_each_scanid", func |-> kind]
    /\ UNCHANGED <<mem, procs, osenv>>

\* a wrapped function applied to the caller's ON array and OFF/REFERENCE array
ApplyEachOnref ==
    /\ call.fn = "none"
    /\ \E kind \in FuncKinds :
          LET r == apply_each_onref(kind, mem.Pon, mem.Poff, <<>>)
          IN  /\ ret' = r.ret
              /\ fcalls' = r.fcalls
              /\ call' = [fn |-> "apply_each_onref", func |-> kind]
    /\ UNCHANGED <<mem, procs, osenv>>

InitCal ==
    /\ mem \in {Objects(EmptyArray, Darray(on), Darray(off), Darray(r)) :
                    on \in CalInputs(MaxOnLen), off \in CalInputs(MaxLen),
                    r \in CalInputs(MaxOnLen)}
    /\ call = NoCall
    /\ ret = NoRet
    /\ fcalls = <<>>
    /\ procs = <<>>
    /\ osenv = NoEnv

\* rsky_calibration on the caller's ON, OFF and REFERENCE arrays
RskyCalibration ==
    /\ call.fn = "none"
    /\ \E Tamb \in {DefaultTamb, DefaultTamb + 20} :
          LET r == rsky_calibration(mem.Pon, mem.Poff, mem.Pr, Tamb)
          IN  /\ ret' = r.ret
              /\ fcalls' = r.fcalls
              /\ call' = [fn |-> "rsky_calibration", Tamb |-> Tamb]
    /\ UNCHANGED <<mem, procs, osenv>>

NextCal == RskyCalibration

SpecCal == InitCal /\ [][NextCal]_vars

\* the lists of scan types a caller names
LabelLists == {<<>>, <<"ON">>, <<"OFF">>, <<"R">>, <<"ON", "OFF">>, <<"R", "OFF">>}

Indexby ==
    /\ call.fn = "none"
    /\ \E items \in LabelLists :
          /\ ret' = indexby(mem.array, items)
          /\ call' = [fn |-> "indexby", items |-> items]
    /\ UNCHANGED <<mem, fcalls, procs, osenv>>

RecomposeDarray ==
    /\ call.fn = "none"
    /\ \E on \in {<<"ON">>, <<"ON", "OFF">>}, off \in {<<"OFF">>, <<>>}, r \in {<<"R">>, <<"R", "OFF">>} :
          LET res == recompose_darray(mem.array, on, off, r)
          IN  /\ ret' = res.ret
              /\ fcalls' = res.fcalls
              /\ call' = [fn |-> "recompose_darray", scantype_on |-> on,
                          scantype_off |-> off, scantype_r |-> r]
    /\ UNCHANGED <<mem, procs, osenv>>

Normalize ==
    /\ call.fn = "none"
    /\ ret' = normalize(mem.array)
    /\ call' = [fn |-> "normalize"]
    /\ UNCHANGED <<mem, fcalls, procs, osenv>>

Denormalize ==
    /\ call.fn = "none"
    /\ ret' = denormalize(mem.array)
    /\ call' = [fn |-> "denormalize"]
    /\ UNCHANGED <<mem, fcalls, procs, osenv>>

\* input arrays of recompose_darray: any scan types and scan IDs; sample i holds row i
RecomposeInputs ==
    {Numbered(t) : t \in SeqsUpTo([time : {0}, scantype : {"ON", "OFF", "R"},
                                   scanid : 0..MaxId, val : {0}], MaxLen)}

InitRecompose ==
    /\ mem \in {Objects(Darray(t), EmptyArray, EmptyArray, EmptyArray) : t \in RecomposeInputs}
    /\ call = NoCall
    /\ ret = NoRet
    /\ fcalls = <<>>
    /\ procs = <<>>
    /\ osenv = NoEnv

NextRecompose == RecomposeDarray

SpecRecompose == InitRecompose /\ [][NextRecompose]_vars

\* what a caller may pass for a De:code array: a valid one, something that is no
\* array (None), an array of other dimensions, an array that lacks a coordinate
Passed(t) ==
    {Darray(t), [isarray |-> FALSE, dims |-> {}, coords |-> {}, t |-> <<>>]}
    \cup {[Darray(t) EXCEPT !.dims = d] : d \in {{"t"}, {"ch"}}}
    \cup {[Darray(t) EXCEPT !.coords = @ \ {c}] : c \in DARRAY_COORDS}

\* a valid array that carries the statistics normalize stores
Normalized(t) ==
    [isarray |-> TRUE, dims |-> DARRAY_DIMS,
     coords |-> DARRAY_COORDS \cup {"time", "mean_along_t", "std_along_t"},
     t |-> t, mean_along_t |-> Mean(<<1, 2>>), std_along_t |-> Std(<<1, 2>>)]

Smp(scantype, scanid, i) ==
    [time |-> (MaxLen + 1) * scanid + i, scantype |-> scantype, scanid |-> scanid, val |-> i]

InitContract ==
    /\ mem \in {Objects(array, Pon, Poff, Pr) :
                    array \in Passed(<<Smp("ON", 0, 1), Smp("OFF", 1, 2), Smp("R", 2, 3)>>)
                              \cup {Normalized(<<Smp("ON", 0, 1), Smp("ON", 0, 2)>>)},
                    Pon \in Passed(<<Smp("ON", 1, 1)>>),
                    Poff \in Passed(<<Smp("OFF", 0, 1), Smp("OFF", 2, 2)>>),
                    Pr \in Passed(<<Smp("R", 1, 1)>>)}
    /\ call = NoCall
    /\ ret = NoRet
    /\ fcalls = <<>>
    /\ procs = <<>>
    /\ osenv = NoEnv

NextContract ==
    \/ Indexby
    \/ ReallocateScanid
    \/ RecomposeDarray
    \/ RskyCalibration
    \/ Normalize
    \/ Denormalize
    \/ ApplyEachScanid
    \/ ApplyEachOnref

SpecContract == InitContract /\ [][NextContract]_vars

\* the machines exec_am may run on
InitAm ==
    /\ osenv \in [AM_PATH : {<<>>, <<"/opt/am/am">>},
                  files : SUBSET {DEFAULT_AMC, "my.amc", "/home/user/my.amc"},
                  executables : SUBSET {"am", "/opt/am/am"}]
    /\ mem = Objects(EmptyArray, EmptyArray, EmptyArray, EmptyArray)
    /\ call = NoCall
    /\ ret = NoRet
    /\ fcalls = <<>>
    /\ procs = <<>>

\* parameters of the docstring's examples: 1.0, 'GHz', '330GHz', and one that is no unit
AmParams ==
    {[valid |-> TRUE, dimensionless |-> TRUE, scale |-> "1.0", to_string |-> <<>>],
     [valid |-> TRUE, dimensionless |-> FALSE, scale |-> "1.0", to_string |-> <<"GHz">>],
     [valid |-> TRUE, dimensionless |-> FALSE, scale |-> "330.0", to_string |-> <<"330", "GHz">>],
     [valid |-> FALSE, dimensionless |-> FALSE, scale |-> "", to_string |-> <<>>]}

\* what am may do: end in time or not, and print a table with a header line or not
AmRuns ==
    [hangs : BOOLEAN,
     stderr : {<<>>,
               <<[output |-> FALSE, items |-> <<>>]>>,
               <<[output |-> FALSE, items |-> <<>>],
                 [output |-> TRUE, items |-> <<"f", "GHz", "tx", "none">>]>>,
               <<[output |-> TRUE, items |-> <<>>]>>},
     columns : 0..1]

ExecAm ==
    /\ call.fn = "none"
    /\ \E params \in SeqsUpTo(AmParams, MaxParams), amc \in {<<>>, <<"my.amc">>, <<"~/my.amc">>},
          timeout \in {<<>>, <<TimeoutS>>}, am_run \in AmRuns :
          LET r == exec_am(params, amc, timeout, osenv, am_run, procs)
          IN  /\ ret' = r.ret
              /\ procs' = r.procs
              /\ call' = [fn |-> "exec_am", amc |-> amc, timeout |-> timeout]
    /\ UNCHANGED <<mem, fcalls, osenv>>

NextAm == ExecAm

SpecAm == InitAm /\ [][NextAm]_vars

NextScanid == ApplyEachScanid

NextOnref == ApplyEachOnref

SpecScanid == InitScanid /\ [][NextScanid]_vars

SpecOnref == InitOnref /\ [][NextOnref]_vars

SpecRealloc == InitRealloc /\ [][NextRealloc]_vars

(***************************************************************************)
(* Claims about reallocate_scanid.                                         *)
(***************************************************************************)
Reallocated == call.fn = "reallocate_scanid" /\ ret.kind = "ref"

\* C1: without t_divide, scanid[1] = 0 and scanid[i] = scanid[i-1] + 1 exactly when
\* scantype[i] differs from scantype[i-1], else scanid[i] = scanid[i-1]; with any
\* t_divide a scan-type change still starts a new ID.  The result is fixed by the
\* scan types alone, so the previous scan IDs have no influence.
C1_ScanTypeRuns ==
    Reallocated =>
        LET t == mem.array.t
        IN  /\ Len(t) >= 1
            /\ call.t_divide = <<>> =>
                  /\ t[1].scanid = 0
                  /\ \A i \in 2..Len(t) :
                        t[i].scanid = t[i-1].scanid
                            + (IF t[i].scantype # t[i-1].scantype THEN 1 ELSE 0)
            /\ \A i \in 2..Len(t) :
                  t[i].scantype # t[i-1].scantype => t[i].scanid = t[i-1].scanid + 1

\* C1 witness: types [A,A,B] whose previous IDs were [1,0,0] get [0,0,1]
C1_Witness ==
    /\ Reallocated
    /\ call.t_divide = <<>>
    /\ Len(mem.array.t) = 3
    /\ [i \in 1..3 |-> mem.array.t[i].scantype] = <<"A", "A", "B">>
    /\ [i \in 1..3 |-> call.before.array.t[i].scanid] = <<1, 0, 0>>
    /\ [i \in 1..3 |-> mem.array.t[i].scanid] = <<0, 0, 1>>

\* C2 (as claimed): with t_divide, adjacent samples of identical scan type get a new
\* ID if |time[i] - time[i-1]| >= t_divide and the same ID if the gap is below it.
C2_GapAtLeast ==
    (Reallocated /\ call.t_divide # <<>>) =>
        LET t == mem.array.t
            td == call.t_divide[1]
        IN  \A i \in 2..Len(t) :
               t[i].scantype = t[i-1].scantype =>
                  IF Abs(t[i].time - t[i-1].time) >= td
                  THEN t[i].scanid = t[i-1].scanid + 1
                  ELSE t[i].scanid = t[i-1].scanid

\* C2 (amended): with t_divide, adjacent samples of identical scan type get a new ID
\* if and only if |time[i] - time[i-1]| is strictly greater than t_divide truncated
\* to a whole number of t_unit; a gap equal to that does not start a new ID.
C2_GapGreater ==
    (Reallocated /\ call.t_divide # <<>>) =>
        LET t == mem.array.t
            whole == (call.t_divide[1] \div TicksPerUnit) * TicksPerUnit
        IN  \A i \in 2..Len(t) :
               t[i].scantype = t[i-1].scantype =>
                  IF Abs(t[i].time - t[i-1].time) > whole
                  THEN t[i].scanid = t[i-1].scanid + 1
                  ELSE t[i].scanid = t[i-1].scanid

\* C2 witness: a gap of exactly t_divide (one whole unit) between two samples of one
\* scan type, which keep one ID, and a larger gap, which starts a new one
C2_Witness ==
    /\ Reallocated
    /\ call.t_divide = <<TicksPerUnit>>
    /\ \E i \in 2..Len(mem.array.t) :
          /\ mem.array.t[i].scantype = mem.array.t[i-1].scantype
          /\ Abs(mem.array.t[i].time - mem.array.t[i-1].time) = TicksPerUnit
          /\ mem.array.t[i].scanid = mem.array.t[i-1].scanid
    /\ \E i \in 2..Len(mem.array.t) :
          /\ mem.array.t[i].scantype = mem.array.t[i-1].scantype
          /\ Abs(mem.array.t[i].time - mem.array.t[i-1].time) > TicksPerUnit
          /\ mem.array.t[i].scanid = mem.array.t[i-1].scanid + 1

\* C9: reallocate_scanid returns the very array it was given, whose scan-ID
\* coordinate now holds the new IDs (0 first, then steps of 0 or 1) and whose data,
\* time, scan type and other coordinates are as before; no other object changes.
C9_InPlace ==
    (call.fn = "reallocate_scanid" /\ ret.kind # "raise") =>
        LET new == mem.array
            old == call.before.array
        IN  /\ ret = Ref("array")
            /\ new.isarray = old.isarray /\ new.dims = old.dims /\ new.coords = old.coords
            /\ Len(new.t) = Len(old.t)
            /\ \A i \in 1..Len(new.t) :
                  /\ new.t[i].val = old.t[i].val
                  /\ new.t[i].time = old.t[i].time
                  /\ new.t[i].scantype = old.t[i].scantype
                  /\ new.t[i].scanid = IF i = 1 THEN 0 ELSE new.t[i-1].scanid +
                        (IF \/ new.t[i].scantype # new.t[i-1].scantype
                            \/ /\ call.t_divide # <<>>
                               /\ Abs(new.t[i].time - new.t[i-1].time)
                                     > (call.t_divide[1] \div TicksPerUnit) * TicksPerUnit
                         THEN 1 ELSE 0)
            /\ \A o \in {"Pon", "Poff", "Pr"} : mem[o] = call.before[o]

\* C9 witness: the caller's array carries scan IDs other than those it had
C9_Witness ==
    /\ call.fn = "reallocate_scanid"
    /\ ret = Ref("array")
    /\ Len(mem.array.t) = MaxLen
    /\ \E i \in 1..Len(mem.array.t) : mem.array.t[i].scanid # call.before.array.t[i].scanid

(***************************************************************************)
(* Claims about apply_each_scanid and apply_each_onref.                    *)
(***************************************************************************)
\* the samples of t whose scan ID is in ids
OfIds(t, ids) == SelectSeq(t, LAMBDA smp : smp.scanid \in ids)

\* the place of sample i among the samples of t with its scan ID
PlaceInGroup(t, i) == Cardinality({j \in 1..i : t[j].scanid = t[i].scanid})

\* C8: every sample position belongs to exactly one scan-ID group and receives the
\* value f returned for that group at that position, so a wrapped identity returns
\* an array equal to the input; if f's result for some group has another shape than
\* the group, the call fails with the shape assertion and returns no array.
C8_Reassembled ==
    (call.fn = "apply_each_scanid" /\ assert_isdarray(mem.array)) =>
        LET Tin == mem.array
            n == Len(Tin.t)
            Group(i) == [Tin EXCEPT !.t = OfIds(Tin.t, {Tin.t[i].scanid})]
            Out(i) == func(call.func, <<Group(i)>>).rows
            WrongShape == \E i \in 1..n : Len(Out(i)) # Len(Group(i).t)
        IN  /\ \A i \in 1..n :
                  Cardinality({k \in 1..Len(unique(Tin.t)) :
                                  unique(Tin.t)[k] = Tin.t[i].scanid}) = 1
            /\ WrongShape => ret = Raise("AssertionError", "utils.py:177")
            /\ ~WrongShape =>
                  /\ ret.kind = "value"
                  /\ Len(ret.value.t) = n
                  /\ \A i \in 1..n :
                        ret.value.t[i] =
                            [Tin.t[i] EXCEPT !.val = Out(i)[PlaceInGroup(Tin.t, i)]]
            /\ call.func = "identity" => ret = Value(Tin)

\* C8 witness: scan IDs [0,1,0] (group 0 is not contiguous) and a function that
\* reverses each group: rows [1,1,2] come back as [2,1,1]
C8_Witness ==
    /\ call.fn = "apply_each_scanid"
    /\ call.func = "reverse"
    /\ Len(mem.array.t) = 3
    /\ [i \in 1..3 |-> mem.array.t[i].scanid] = <<0, 1, 0>>
    /\ Vals(mem.array.t) = <<1, 1, 2>>
    /\ ret.kind = "value"
    /\ Vals(ret.value.t) = <<2, 1, 1>>

\* C7: for every ON scan ID that f is applied to, the OFF/REFERENCE sub-array f gets
\* holds exactly the samples whose scan ID is the latter ID (the one at the insertion
\* point of the ON ID in the sorted unique IDs) or the former ID (the one before the
\* insertion point, the last ID when the insertion point is the first), and f's
\* result is written to exactly the positions of that ON group.
C7_Bracketing ==
    call.fn = "apply_each_onref" =>
        LET Ton == mem.Pon
            Tref == mem.Poff
            refids == unique(Tref.t)
            At(id) == Cardinality({k \in 1..Len(refids) : refids[k] < id})
            LatterOf(id) == refids[At(id) + 1]
            FormerOf(id) == IF At(id) = 0 THEN refids[Len(refids)] ELSE refids[At(id)]
        IN  /\ \A k \in 1..Len(fcalls) :
                  LET c == fcalls[k]
                  IN  /\ At(c.id) < Len(refids)
                      /\ c.args[1].t = OfIds(Ton.t, {c.id})
                      /\ c.args[2].t = OfIds(Tref.t, {LatterOf(c.id), FormerOf(c.id)})
            /\ ret.kind = "value" =>
                  /\ Len(ret.value.t) = Len(Ton.t)
                  /\ \A i \in 1..Len(Ton.t) :
                        \E k \in 1..Len(fcalls) :
                           /\ fcalls[k].id = Ton.t[i].scanid
                           /\ ret.value.t[i] =
                                 [Ton.t[i] EXCEPT !.val =
                                     func(call.func, fcalls[k].args).rows[PlaceInGroup(Ton.t, i)]]

\* C7 witness: ON ID 0 with OFF/REFERENCE IDs 0, 1, 2: the latter ID is 0, the former
\* wraps to 2, and f gets the samples of IDs 0 and 2 but not the one of ID 1
C7_Witness ==
    /\ call.fn = "apply_each_onref"
    /\ ret.kind = "value"
    /\ Len(fcalls) = 1
    /\ fcalls[1].id = 0
    /\ [i \in 1..Len(mem.Poff.t) |-> mem.Poff.t[i].scanid] = <<1, 0, 2>>
    /\ Vals(fcalls[1].args[2].t) = <<2, 3>>

C3_PairedReference ==
    call.fn = "rsky_calibration" =>
        \A k \in 1..Len(fcalls) :
           LET c == fcalls[k]
               Pr == IF c.func = "_calculate_Ton" THEN c.args[3] ELSE c.args[2]
           IN  Pr.t = OfIds(mem.Pr.t, {c.id})

(***************************************************************************)
(* Claims about the array contract and recompose_darray.                   *)
(***************************************************************************)
\* the Labeled Array arguments of each function
ArrayArgs ==
    [indexby |-> {"array"}, reallocate_scanid |-> {"array"}, recompose_darray |-> {"array"},
     rsky_calibration |-> {"Pon", "Poff", "Pr"}, normalize |-> {"array"},
     denormalize |-> {"array"}, apply_each_scanid |-> {"array"},
     apply_each_onref |-> {"Pon", "Poff"}]

\* an array with the axis set {t, ch} and the five required coordinates
IsLabeledArray(a) ==
    /\ a.isarray
    /\ a.dims = {"t", "ch"}
    /\ \A c \in {"scanid", "scantype", "kidid", "kidfq", "kidtp"} : c \in a.coords

\* C4: if any Labeled Array argument of a call is not an array, has an axis set other
\* than {t, ch} or lacks a required coordinate, the call fails with the contract
\* failure before anything else is done: the wrapped function is never applied and
\* nothing is returned.
C4_ContractFirst ==
    (call.fn # "none" /\ \E o \in ArrayArgs[call.fn] : ~IsLabeledArray(mem[o])) =>
        /\ ret = Raise("AssertionError", "assert_isdarray")
        /\ fcalls = <<>>

\* C6: the arrays recompose_darray returns are aligned: Pon and Pr_on, and Poff and
\* Pr_off, have the same number of samples and the same scan ID at every position,
\* and that ID is the number of scan-type changes before the sample in the ON+OFF
\* (sky) sequence of the input, whatever the scan IDs of the input were.
C6_Aligned ==
    (call.fn = "recompose_darray" /\ ret.kind = "value") =>
        LET sky == SelectSeq(mem.array.t, LAMBDA smp :
                      \E k \in 1..Len(call.scantype_on \o call.scantype_off) :
                         smp.scantype = (call.scantype_on \o call.scantype_off)[k])
            run == [i \in 1..Len(sky) |->
                      Cardinality({j \in 2..i : sky[j].scantype # sky[j-1].scantype})]
            Fresh(items) ==
                LET pos == SortedSeq({i \in 1..Len(sky) :
                              \E k \in 1..Len(items) : sky[i].scantype = items[k]})
                IN  [n \in 1..Len(pos) |-> run[pos[n]]]
            Ids(a) == [i \in 1..Len(a.t) |-> a.t[i].scanid]
            Pon == ret.value[1]
            Poff == ret.value[2]
            Pr_on == ret.value[3]
            Pr_off == ret.value[4]
        IN  /\ Len(Pon.t) = Len(Pr_on.t) /\ Ids(Pon) = Ids(Pr_on)
            /\ Len(Poff.t) = Len(Pr_off.t) /\ Ids(Poff) = Ids(Pr_off)
            /\ Ids(Pon) = Fresh(call.scantype_on)
            /\ Ids(Poff) = Fresh(call.scantype_off)

\* C6 witness: ON, OFF, R samples with scan IDs 1, 1, 2: Pon and Pr_on carry the
\* fresh ID 0, Poff and Pr_off the fresh ID 1
C6_Witness ==
    /\ call.fn = "recompose_darray"
    /\ ret.kind = "value"
    /\ call.scantype_on = <<"ON">> /\ call.scantype_off = <<"OFF">>
    /\ [i \in 1..Len(mem.array.t) |-> mem.array.t[i].scantype] = <<"ON", "OFF", "R">>
    /\ [i \in 1..Len(mem.array.t) |-> mem.array.t[i].scanid] = <<1, 1, 2>>
    /\ [i \in 1..Len(ret.value[3].t) |-> ret.value[3].t[i].scanid] = <<0>>
    /\ [i \in 1..Len(ret.value[4].t) |-> ret.value[4].t[i].scanid] = <<1>>

(***************************************************************************)
(* Claims about exec_am.                                                   *)
(***************************************************************************)
\* C5: exec_am with a configuration file that does not exist raises a file-not-found
\* condition and the am program is never started.
C5_MissingConfig ==
    LET path == IF call.amc = <<>> THEN DEFAULT_AMC ELSE expanduser(call.amc[1])
    IN  (call.fn = "exec_am" /\ path \notin osenv.files) =>
           /\ ret.kind = "raise" /\ ret.exc = "FileNotFoundError"
           /\ procs = <<>>

====
